---- MODULE Spec2Model ----
(***************************************************************************)
(* list-tree (`lt'): the recursive generator print_tree of tree/main.py,   *)
(* and the consumer struct_prettifier that _main feeds every yielded File  *)
(* record to.  The generator is modelled as a stack of suspended frames    *)
(* (one per active print_tree call, joined by `yield from'); every action  *)
(* is one block of print_tree's body, and every yield also runs the        *)
(* consumer's loop body (pretty.send(struct) and print).                   *)
(*                                                                         *)
(* The filesystem is the environment: os.listdir answers when it is called,*)
(* with any listing of distinct names of Names, and answers the same when  *)
(* asked again about the same directory: the symbolic link `l' points at   *)
(* the walk's root.  Names are sequences of characters.                    *)
(***************************************************************************)
EXTENDS Integers, Sequences, FiniteSets, TLC

\* ---------------------------------------------------------------- bounds
\* --max-depth ranges over 0..MaxDepthArg
MaxDepthArg == 2
\* the directories listed during one walk hold at most MaxListed names in all
\* (a directory reached again through the link `l' adds no names)
MaxListed == 2

\* ------------------------------------------------------------ filesystem
NameA    == <<"a">>
NameBak  == <<"b", "~">>
NameD    == <<"d">>
NameDotH == <<".", "h">>
NameL    == <<"l">>
NameP    == <<"p">>
NameO    == <<"o">>

\* the names a directory may hold (never "." or "..": os.listdir omits them)
Names == {NameA, NameBak, NameO, NameD, NameDotH, NameL, NameP}

\* what the entry of that name is
KindOf(name) ==
    CASE name = NameA    -> "file"
      [] name = NameBak  -> "file"
      [] name = NameD    -> "dir"
      [] name = NameDotH -> "dir"
      [] name = NameL    -> "symlink_to_root"
      [] name = NameO    -> "file"
      [] name = NameP    -> "fifo"
      [] OTHER           -> "dir"

\* the walk's root, os.path.realpath(cwd), by its last component
RootNames == {<<"r">>, <<".", "r">>}

\* str.startswith / str.endswith with a one-character argument
startswith(f, c) == Len(f) > 0 /\ f[1] = c
endswith(f, c) == Len(f) > 0 /\ f[Len(f)] = c

\* os.path.basename of a path held as the sequence of its components
basename(path) == path[Len(path)]

\* file_ignored: the exit code of `git check-ignore -q path' is 0; the
\* repository's .gitignore names `o'
file_ignored(path) == basename(path) = NameO

\* os.path.isdir / os.path.isfile follow symbolic links
isdir(path) == KindOf(basename(path)) \in {"dir", "symlink_to_root"}
isfile(path) == KindOf(basename(path)) = "file"

VARIABLES
    MAX_DEPTH,          \* int(argv['--max-depth'])
    LIST_ALL,           \* 2 with --all, 1 with --almost-all, else 0
    IGNORE_BACKUPS,     \* --ignore-backups
    NO_RECUR,           \* --no-recursive
    RESPECT_GITIGNORE,  \* --gitignore
    generator_stop,     \* PEP 479: whether the interpreter turns a StopIteration
                        \* raised in a generator body into RuntimeError (it does
                        \* from Python 3.7 on); "unobserved" until the first raise
    stack,              \* the active print_tree frames, innermost last
    out,                \* the File records yielded so far
    open_folds,         \* struct_prettifier's open_folds
    printed,            \* the lines printed so far
    calls,              \* history: every print_tree call and what became of it
    listed,             \* names enumerated so far (bounded by MaxListed)
    status              \* "walking", "done", or "error" (RuntimeError left print_tree)

vars == <<MAX_DEPTH, LIST_ALL, IGNORE_BACKUPS, NO_RECUR, RESPECT_GITIGNORE,
          generator_stop, stack, out, open_folds, printed, calls, listed, status>>

config == <<MAX_DEPTH, LIST_ALL, IGNORE_BACKUPS, NO_RECUR, RESPECT_GITIGNORE>>

\* ----------------------------------------------------------------- records
File(name, depth, directory, permission_failure, path) ==
    [name |-> name, depth |-> depth, directory |-> directory,
     permission_failure |-> permission_failure, path |-> path]

\* get_print_string_dir / get_print_string_file: the basename (the ANSI colour
\* and the --classify suffix around it are left out)
get_print_string_dir(path) == basename(path)
get_print_string_file(path) == basename(path)

\* a new print_tree frame, at the top of the function body
Frame(wd, depth, call) ==
    [wd |-> wd, depth |-> depth, pc |-> "L326", l |-> <<>>,
     files |-> <<>>, dirs |-> <<>>, fi |-> 1, di |-> 1, call |-> call]

Call(wd, depth) ==
    [wd |-> wd, depth |-> depth, how |-> "entered", l |-> <<>>,
     files |-> <<>>, dirs |-> <<>>, returned |-> FALSE]

Top == stack[Len(stack)]

\* ---------------------------------------------------- struct_prettifier
\* the indent of the line for struct, one column per open fold
Indent(folds, struct) ==
    [i \in 1..Len(folds) |->
        IF i = Len(folds) /\ struct.directory THEN "  +" ELSE "  |"]

\* "dropped out of directory": pop the folds deeper than struct
RECURSIVE DropFolds(_, _)
DropFolds(folds, depth) ==
    IF folds # <<>> /\ depth < folds[Len(folds)]
    THEN DropFolds(SubSeq(folds, 1, Len(folds) - 1), depth)
    ELSE folds

\* "jumped into directory"
PushFold(folds, struct) ==
    IF struct.directory /\ (folds = <<>> \/ folds[Len(folds)] # struct.depth - 1)
    THEN Append(folds, struct.depth + 1)
    ELSE folds

\* one round of the generator: the line sent back and the folds left
Line(folds, struct) ==
    [indent |-> Indent(folds, struct), name |-> struct.name,
     permission_failure |-> struct.permission_failure]

\* a yield of print_tree, consumed by _main's loop: print(pretty.send(struct))
Yield(struct) ==
    /\ out' = Append(out, struct)
    /\ printed' = Append(printed, Line(open_folds, struct))
    /\ open_folds' = PushFold(DropFolds(open_folds, struct.depth), struct)

\* ------------------------------------------------------------ print_tree
SetTop(f) == [stack EXCEPT ![Len(stack)] = f]
Popped == SubSeq(stack, 1, Len(stack) - 1)

\* the generator of the top frame ends: `yield from' in its caller goes on
Finish(how) ==
    /\ stack' = Popped
    /\ calls' = [calls EXCEPT ![Top.call].how = how, ![Top.call].returned = TRUE]
    /\ status' = IF Len(stack) = 1 THEN "done" ELSE "walking"

\* `raise StopIteration' in the generator body
RaiseStopIteration(how) ==
    \/ /\ generator_stop \in {"unobserved", "on"}
       /\ generator_stop' = "on"
       /\ stack' = <<>>
       /\ calls' = [calls EXCEPT ![Top.call].how = how]
       /\ status' = "error"
    \/ /\ generator_stop \in {"unobserved", "off"}
       /\ generator_stop' = "off"
       /\ Finish(how)

Walking == status = "walking" /\ stack # <<>>

\* mutant of AtCeiling: the test is made one level too late
AtCeiling_OneLate(depth) == depth = MAX_DEPTH + 1

\* the test of line 328
AtCeiling(depth) == depth = MAX_DEPTH

\* the test of line 332
Nested(depth) == NO_RECUR /\ depth > 0

\* lines 328-329
DepthStop ==
    /\ Walking /\ Top.pc = "L326"
    /\ AtCeiling(Top.depth)
    /\ RaiseStopIteration("depth_stop")
    /\ UNCHANGED <<config, out, open_folds, printed, listed>>

\* lines 332-333
NoRecurStop ==
    /\ Walking /\ Top.pc = "L326"
    /\ ~AtCeiling(Top.depth)
    /\ Nested(Top.depth)
    /\ RaiseStopIteration("norecur_stop")
    /\ UNCHANGED <<config, out, open_folds, printed, listed>>

PassedChecks ==
    /\ Walking /\ Top.pc = "L326"
    /\ ~AtCeiling(Top.depth)
    /\ ~Nested(Top.depth)

\* sequences of distinct names, at most n of them
Listings(n) ==
    {l \in UNION {[1..k -> Names] : k \in 0..n} :
        \A i, j \in 1..Len(l) : i # j => l[i] # l[j]}

\* the directory a path names: the link `l' leads back to the root
RECURSIVE realpath(_)
realpath(path) ==
    IF Len(path) <= 1 THEN path
    ELSE IF basename(path) = NameL THEN <<path[1]>>
    ELSE Append(realpath(SubSeq(path, 1, Len(path) - 1)), basename(path))

\* the earlier calls of os.listdir on the directory wd names
Earlier(wd) ==
    {k \in 1..Len(calls) :
        /\ calls[k].how \in {"listed", "expanded", "denied"}
        /\ realpath(calls[k].wd) = realpath(wd)}

\* what os.listdir(wd) may return: what it returned before for the same
\* directory, or else any listing within the bounds
ListDirResults(wd) ==
    IF Earlier(wd) # {}
    THEN {calls[k].l : k \in {j \in Earlier(wd) : calls[j].how # "denied"}}
    ELSE Listings(MaxListed - listed)

\* os.listdir(wd) may raise PermissionError: it did before, or wd is new
ListDirMayFail(wd) ==
    \A k \in Earlier(wd) : calls[k].how = "denied"

\* lines 338-340: os.listdir succeeds, the directory's own record is yielded
ListDir ==
    /\ PassedChecks
    /\ \E l \in ListDirResults(Top.wd) :
        /\ stack' = SetTop([Top EXCEPT !.pc = "L342", !.l = l])
        /\ calls' = [calls EXCEPT ![Top.call].how = "listed", ![Top.call].l = l]
        /\ listed' = IF Earlier(Top.wd) # {} THEN listed ELSE listed + Len(l)
    /\ Yield(File(get_print_string_dir(Top.wd), Top.depth, TRUE, FALSE, Top.wd))
    /\ UNCHANGED <<config, generator_stop, status>>

\* lines 339, 361-362: os.listdir raises PermissionError
ListDirDenied ==
    /\ PassedChecks
    /\ ListDirMayFail(Top.wd)
    /\ stack' = SetTop([Top EXCEPT !.pc = "L363"])
    /\ calls' = [calls EXCEPT ![Top.call].how = "denied"]
    /\ Yield(File(get_print_string_dir(Top.wd), Top.depth, TRUE, TRUE, Top.wd))
    /\ UNCHANGED <<config, generator_stop, listed, status>>

\* line 363
DeniedStop ==
    /\ Walking /\ Top.pc = "L363"
    /\ RaiseStopIteration("denied")
    /\ UNCHANGED <<config, out, open_folds, printed, listed>>

\* mutant of Skipped: --almost-all hides dot-named entries too
Skipped_AlmostAllHides(wd, f) ==
    \/ startswith(f, ".") /\ LIST_ALL # 2
    \/ endswith(f, "~") /\ IGNORE_BACKUPS
    \/ RESPECT_GITIGNORE /\ file_ignored(Append(wd, f))

\* lines 343-355: the entry is skipped
Skipped(wd, f) ==
    \/ startswith(f, ".") /\ LIST_ALL = 0
    \/ endswith(f, "~") /\ IGNORE_BACKUPS
    \/ RESPECT_GITIGNORE /\ file_ignored(Append(wd, f))

\* lines 342-360: the entries of l kept as directories
RECURSIVE DirsOf(_, _)
DirsOf(wd, l) ==
    IF l = <<>> THEN <<>>
    ELSE LET f == Head(l)
             fs == Append(wd, f)
         IN  (IF ~Skipped(wd, f) /\ isdir(fs) THEN <<fs>> ELSE <<>>)
             \o DirsOf(wd, Tail(l))

\* lines 342-360: the entries of l kept as files
RECURSIVE FilesOf(_, _)
FilesOf(wd, l) ==
    IF l = <<>> THEN <<>>
    ELSE LET f == Head(l)
             fs == Append(wd, f)
         IN  (IF ~Skipped(wd, f) /\ ~isdir(fs) /\ isfile(fs) THEN <<fs>> ELSE <<>>)
             \o FilesOf(wd, Tail(l))

\* lines 342-360 and the test of line 365
Classify ==
    /\ Walking /\ Top.pc = "L342"
    /\ LET files == FilesOf(Top.wd, Top.l)
           dirs == DirsOf(Top.wd, Top.l)
       IN  /\ stack' = SetTop([Top EXCEPT !.files = files, !.dirs = dirs,
                                 !.pc = IF LIST_ALL = 2 THEN "L366" ELSE "L369"])
           /\ calls' = [calls EXCEPT ![Top.call].how = "expanded",
                                     ![Top.call].files = files, ![Top.call].dirs = dirs]
    /\ UNCHANGED <<config, generator_stop, out, open_folds, printed, listed, status>>

\* line 366
YieldDot ==
    /\ Walking /\ Top.pc = "L366"
    /\ stack' = SetTop([Top EXCEPT !.pc = "L367"])
    /\ Yield(File(<<".">>, Top.depth + 1, TRUE, FALSE, Top.wd))
    /\ UNCHANGED <<config, generator_stop, calls, listed, status>>

\* line 367
YieldDotDot ==
    /\ Walking /\ Top.pc = "L367"
    /\ stack' = SetTop([Top EXCEPT !.pc = "L369"])
    /\ Yield(File(<<".", ".">>, Top.depth + 1, TRUE, FALSE, Top.wd))
    /\ UNCHANGED <<config, generator_stop, calls, listed, status>>

\* the loops of lines 369 and 373 have entries left
FilesPending(f) == f.fi <= Len(f.files)
DirsPending(f) == f.di <= Len(f.dirs)

\* lines 369-371
YieldFile ==
    /\ Walking /\ Top.pc = "L369"
    /\ FilesPending(Top)
    /\ stack' = SetTop([Top EXCEPT !.fi = @ + 1])
    /\ Yield(File(get_print_string_file(Top.files[Top.fi]), Top.depth + 1,
                  FALSE, FALSE, Top.files[Top.fi]))
    /\ UNCHANGED <<config, generator_stop, calls, listed, status>>

\* mutant of Recurse: the loop over dirs does not wait for the loop over files
Recurse_BeforeFiles ==
    /\ Walking /\ Top.pc = "L369"
    /\ DirsPending(Top)
    /\ stack' = Append(SetTop([Top EXCEPT !.di = @ + 1]),
                       Frame(Top.dirs[Top.di], Top.depth + 1, Len(calls) + 1))
    /\ calls' = Append(calls, Call(Top.dirs[Top.di], Top.depth + 1))
    /\ UNCHANGED <<config, generator_stop, out, open_folds, printed, listed, status>>

\* mutant of Recurse: the recursive call is made with depth, not depth + 1
Recurse_SameDepth ==
    /\ Walking /\ Top.pc = "L369"
    /\ ~FilesPending(Top)
    /\ DirsPending(Top)
    /\ stack' = Append(SetTop([Top EXCEPT !.di = @ + 1]),
                       Frame(Top.dirs[Top.di], Top.depth, Len(calls) + 1))
    /\ calls' = Append(calls, Call(Top.dirs[Top.di], Top.depth))
    /\ UNCHANGED <<config, generator_stop, out, open_folds, printed, listed, status>>

\* lines 373-376: yield from print_tree(d, depth=depth + 1)
Recurse ==
    /\ Walking /\ Top.pc = "L369"
    /\ ~FilesPending(Top)
    /\ DirsPending(Top)
    /\ stack' = Append(SetTop([Top EXCEPT !.di = @ + 1]),
                       Frame(Top.dirs[Top.di], Top.depth + 1, Len(calls) + 1))
    /\ calls' = Append(calls, Call(Top.dirs[Top.di], Top.depth + 1))
    /\ UNCHANGED <<config, generator_stop, out, open_folds, printed, listed, status>>

LoopsDone ==
    /\ Walking /\ Top.pc = "L369"
    /\ ~FilesPending(Top)
    /\ ~DirsPending(Top)

\* mutant of EmptyAndHidden: the placeholder is held back under --all only
EmptyUnlessShowAll == Len(Top.dirs) = 0 /\ Len(Top.files) = 0 /\ LIST_ALL # 2

\* the test of line 378
EmptyAndHidden == Len(Top.dirs) = 0 /\ Len(Top.files) = 0 /\ LIST_ALL = 0

\* lines 378-379
Placeholder ==
    /\ LoopsDone
    /\ EmptyAndHidden
    /\ stack' = SetTop([Top EXCEPT !.pc = "end"])
    /\ Yield(File(<<".", ".">>, Top.depth + 1, TRUE, FALSE, Top.wd))
    /\ UNCHANGED <<config, generator_stop, calls, listed, status>>

\* the end of the function body
Return ==
    /\ Walking
    /\ \/ Top.pc = "end"
       \/ LoopsDone /\ ~EmptyAndHidden
    /\ Finish("expanded")
    /\ UNCHANGED <<config, generator_stop, out, open_folds, printed, listed>>

\* ------------------------------------------------------------------ _main
Init ==
    /\ MAX_DEPTH \in 0..MaxDepthArg
    /\ LIST_ALL \in {0, 1, 2}
    /\ IGNORE_BACKUPS \in BOOLEAN
    /\ NO_RECUR \in BOOLEAN
    /\ RESPECT_GITIGNORE \in BOOLEAN
    /\ generator_stop = "unobserved"
    /\ \E root \in RootNames :
        /\ stack = <<Frame(<<root>>, 0, 1)>>
        /\ calls = <<Call(<<root>>, 0)>>
    /\ out = <<>>
    /\ open_folds = <<>>
    /\ printed = <<>>
    /\ listed = 0
    /\ status = "walking"

Next ==
    \/ DepthStop
    \/ NoRecurStop
    \/ ListDir
    \/ ListDirDenied
    \/ DeniedStop
    \/ Classify
    \/ YieldDot
    \/ YieldDotDot
    \/ YieldFile
    \/ Recurse
    \/ Placeholder
    \/ Return

Spec == Init /\ [][Next]_vars

FairSpec == Spec /\ WF_vars(Next)

\* ================================================================ claims
IsPrefix(p, q) == Len(p) <= Len(q) /\ SubSeq(q, 1, Len(p)) = p

\* the synthetic rows: "." and ".." (no directory entry has these names)
Synthetic(r) == r.name \in {<<".">>, <<".", ".">>}

\* the indices of the records of the directory wd itself at that depth
OwnRecords(wd, depth) ==
    {i \in 1..Len(out) :
        out[i].path = wd /\ out[i].depth = depth /\ out[i].directory /\ ~Synthetic(out[i])}

\* the indices of the records at or below the path p (synthetic rows of p included)
Under(p) == {i \in 1..Len(out) : IsPrefix(p, out[i].path)}

\* the indices of the records strictly inside the directory wd of that depth
Inside(wd, depth) == {i \in Under(wd) : out[i].depth > depth}

CallIds == 1..Len(calls)

\* C1: with max depth N >= 0 no yielded record (file, directory or synthetic)
\* has a depth above N, and a directory at depth N is never enumerated and
\* contributes no child records.
C1_DepthBounded ==
    /\ \A i \in 1..Len(out) : out[i].depth <= MAX_DEPTH
    /\ \A k \in CallIds :
        calls[k].depth = MAX_DEPTH =>
            /\ calls[k].how \in {"entered", "depth_stop"}
            /\ calls[k].l = <<>>
            /\ Inside(calls[k].wd, calls[k].depth) = {}
    /\ \A n \in 1..Len(stack) :
        stack[n].depth = MAX_DEPTH => stack[n].pc = "L326"

\* a subdirectory at the ceiling was reached and left, and a record sits at depth N
C1_Witness ==
    /\ MAX_DEPTH >= 1
    /\ \E k \in CallIds : calls[k].depth = MAX_DEPTH /\ calls[k].returned
    /\ \E i \in 1..Len(out) : out[i].depth = MAX_DEPTH

\* C2: a directory whose depth equals max_depth is not enumerated but its own
\* record is still emitted: once the walk is over, every directory the walker
\* reached at depth == max_depth (the root when max_depth = 0) has exactly one
\* directory record.
C2_CeilingDirShown ==
    status = "done" =>
        \A k \in CallIds :
            calls[k].depth = MAX_DEPTH =>
                Cardinality(OwnRecords(calls[k].wd, calls[k].depth)) = 1

\* C3: with --no-recursive only the root produces child records, and every
\* directory reached at depth >= 1 yields exactly its own directory record
\* and nothing else (stated of the directories below the depth ceiling, which
\* the --no-recursive test is the one to stop).
C3_NoRecurOwnRecord ==
    (status = "done" /\ NO_RECUR) =>
        \A k \in CallIds :
            (calls[k].depth >= 1 /\ calls[k].depth < MAX_DEPTH) =>
                /\ Inside(calls[k].wd, calls[k].depth) = {}
                /\ Cardinality(OwnRecords(calls[k].wd, calls[k].depth)) = 1
                /\ Under(calls[k].wd) = OwnRecords(calls[k].wd, calls[k].depth)

\* C10: the walk ends after finitely many records, also when the link `l'
\* makes the directory graph cyclic: every recursive call is one level deeper
\* than its caller, and never more than N + 1 print_tree frames are active.
C10_Terminates ==
    /\ [](/\ Len(stack) <= MAX_DEPTH + 1
          /\ \A n \in 1..Len(stack) : stack[n].depth = n - 1)
    /\ <>(status # "walking")

\* the walk went round the cycle down to the ceiling, N + 1 frames deep, and ended
C10_Witness ==
    /\ status = "done"
    /\ MAX_DEPTH >= 2
    /\ \E k \in CallIds :
        /\ calls[k].depth = MAX_DEPTH
        /\ \A n \in 2..Len(calls[k].wd) : calls[k].wd[n] = NameL

\* the call made for the directory that holds wd
Parent(k) ==
    CHOOSE p \in CallIds :
        calls[p].wd = SubSeq(calls[k].wd, 1, Len(calls[k].wd) - 1)

\* the directories listed after wd in the dirs of the call that recursed into it
LaterSiblings(k) ==
    IF k = 1 THEN {}
    ELSE LET dirs == calls[Parent(k)].dirs
         IN  {dirs[b] : b \in {c \in 1..Len(dirs) :
                 \E a \in 1..Len(dirs) : a < c /\ dirs[a] = calls[k].wd}}

\* C4: a directory whose enumeration fails with PermissionError gets exactly
\* one record, flagged, and no descendant records; no error leaves the walk;
\* and the walk goes on with the next sibling, whose records still appear.
C4_DeniedContained ==
    \A k \in CallIds :
        calls[k].how = "denied" =>
            /\ Cardinality(Under(calls[k].wd)) = 1
            /\ \A i \in Under(calls[k].wd) :
                out[i].permission_failure /\ out[i].depth = calls[k].depth
            /\ ~(status = "error" /\ ~calls[k].returned)
            /\ status # "walking" =>
                \A d \in LaterSiblings(k) : OwnRecords(d, calls[k].depth) # {}

\* where the name stands in the listing
Pos(l, name) == CHOOSE n \in 1..Len(l) : l[n] = name

\* the indices of the file records of the call k
FileRecords(k) ==
    {i \in 1..Len(out) :
        /\ ~out[i].directory
        /\ Len(out[i].path) = Len(calls[k].wd) + 1
        /\ IsPrefix(calls[k].wd, out[i].path)}

\* C5: in the output of one expanded directory every file record, in
\* enumeration order, comes before the first record of any subdirectory's
\* subtree, and the subtrees follow in enumeration order, not interleaved.
C5_FilesBeforeSubtrees ==
    \A k \in CallIds :
        calls[k].how = "expanded" =>
            LET c == calls[k]
            IN  /\ \A i \in FileRecords(k) :
                    \A a \in 1..Len(c.dirs) : \A j \in Under(c.dirs[a]) : i < j
                /\ \A i, j \in FileRecords(k) :
                    i < j => Pos(c.l, basename(out[i].path)) < Pos(c.l, basename(out[j].path))
                /\ \A a, b \in 1..Len(c.dirs) :
                    a < b =>
                        /\ Pos(c.l, basename(c.dirs[a])) < Pos(c.l, basename(c.dirs[b]))
                        /\ \A i \in Under(c.dirs[a]) : \A j \in Under(c.dirs[b]) : i < j
                /\ c.returned =>
                    \A n \in 1..Len(c.files) :
                        \E i \in FileRecords(k) : out[i].path = c.files[n]

\* a directory was left whose file records are followed by a subdirectory's subtree
C5_Witness ==
    \E k \in CallIds :
        /\ calls[k].how = "expanded" /\ calls[k].returned
        /\ FileRecords(k) # {}
        /\ \E a \in 1..Len(calls[k].dirs) : Cardinality(Under(calls[k].dirs[a])) >= 2

\* a directory was left two of whose subdirectories each gave a subtree of records
C5_WitnessTwoSubtrees ==
    \E k \in CallIds :
        /\ calls[k].returned
        /\ \E a, b \in 1..Len(calls[k].dirs) :
            /\ a < b
            /\ Cardinality(Under(calls[k].dirs[a])) >= 2
            /\ Cardinality(Under(calls[k].dirs[b])) >= 2

\* the ".." rows the call k yielded at depth + 1
DotDotRows(k) ==
    {i \in 1..Len(out) :
        /\ out[i].name = <<".", ".">>
        /\ out[i].path = calls[k].wd
        /\ out[i].depth = calls[k].depth + 1}

EmptyCall(k) == calls[k].files = <<>> /\ calls[k].dirs = <<>>

\* C6 as stated: unless the policy is ShowAll, an expanded directory left with
\* no files and no subdirectories after filtering emits exactly one ".."
\* placeholder at depth + 1, under Hidden and under ShowAllExceptDotAndDotDot
\* alike, and one with a file or a subdirectory emits none.
C6_PlaceholderUnlessShowAll ==
    \A k \in CallIds :
        (calls[k].how = "expanded" /\ calls[k].returned /\ LIST_ALL # 2) =>
            Cardinality(DotDotRows(k)) = IF EmptyCall(k) THEN 1 ELSE 0

\* C6 as amended: the placeholder is emitted under Hidden only; under
\* ShowAllExceptDotAndDotDot no directory emits one, and under Hidden a
\* directory with a file or a subdirectory emits none.
C6_PlaceholderWhenHidden ==
    \A k \in CallIds :
        (calls[k].how = "expanded" /\ calls[k].returned /\ LIST_ALL # 2) =>
            Cardinality(DotDotRows(k)) = IF EmptyCall(k) /\ LIST_ALL = 0 THEN 1 ELSE 0

\* an empty directory below the root was left under Hidden, and one under
\* ShowAllExceptDotAndDotDot is excluded by LIST_ALL = 0: the Hidden case
C6_Witness ==
    \E k \in CallIds :
        /\ k > 1
        /\ calls[k].how = "expanded" /\ calls[k].returned
        /\ EmptyCall(k)
        /\ LIST_ALL = 0
        /\ DotDotRows(k) # {}

\* the dot-named names of the listing that the other two rules let through
DotNamesKept(k) ==
    {f \in {calls[k].l[n] : n \in 1..Len(calls[k].l)} :
        /\ startswith(f, ".")
        /\ ~(endswith(f, "~") /\ IGNORE_BACKUPS)
        /\ ~(RESPECT_GITIGNORE /\ file_ignored(Append(calls[k].wd, f)))}

InSeq(x, q) == \E n \in 1..Len(q) : q[n] = x

\* under the policies that show dot-named entries none is skipped: a regular
\* file gets its record, a directory is walked
DotNamesShown ==
    \A k \in CallIds :
        calls[k].how = "expanded" =>
            \A f \in DotNamesKept(k) :
                LET fs == Append(calls[k].wd, f)
                IN  /\ isdir(fs) => InSeq(fs, calls[k].dirs)
                    /\ (~isdir(fs) /\ isfile(fs)) => InSeq(fs, calls[k].files)
                    /\ (calls[k].returned /\ isdir(fs)) =>
                        \E j \in CallIds : calls[j].wd = fs
                    /\ (calls[k].returned /\ ~isdir(fs) /\ isfile(fs)) =>
                        \E i \in FileRecords(k) : out[i].path = fs

\* every expanded directory's own record is followed at once by "." and ".."
DotRowsFollow ==
    \A k \in CallIds :
        calls[k].how \in {"listed", "expanded"} =>
            \A i \in OwnRecords(calls[k].wd, calls[k].depth) :
                /\ calls[k].returned => i + 2 <= Len(out)
                /\ i + 1 <= Len(out) =>
                    out[i + 1] = File(<<".">>, calls[k].depth + 1, TRUE, FALSE, calls[k].wd)
                /\ i + 2 <= Len(out) =>
                    out[i + 2] = File(<<".", ".">>, calls[k].depth + 1, TRUE, FALSE, calls[k].wd)

C7_WitnessHidden ==
    /\ LIST_ALL = 0
    /\ status = "done"
    /\ startswith(basename(calls[1].wd), ".")
    /\ \E k \in CallIds :
        /\ calls[k].how = "expanded"
        /\ InSeq(NameDotH, calls[k].l)

\* C8: the line built for a record has exactly `depth' indent columns before
\* the "--" glyph, whatever was rendered before it.
C8_IndentIsDepth ==
    \A i \in 1..Len(printed) : Len(printed[i].indent) = out[i].depth

\* the names of the listing that the ignore filter lets through
Unfiltered(k) ==
    {n \in 1..Len(calls[k].l) : ~Skipped(calls[k].wd, calls[k].l[n])}

\* C9: every enumerated child the ignore filter does not skip lands in
\* exactly one of the two lists, whatever its type: files and dirs together
\* hold as many entries as the directory has unfiltered children.
C9_NoChildDropped ==
    \A k \in CallIds :
        calls[k].how = "expanded" =>
            Len(calls[k].files) + Len(calls[k].dirs) = Cardinality(Unfiltered(k))
====
